---- MODULE Spec2Model ----
(***************************************************************************)
(* A model of the JSON parser of src/src/lib.rs: the Reader (a character   *)
(* cursor with one character of lookahead) and the mutually recursive      *)
(* productions built on it, executed as a machine with an explicit call    *)
(* stack.  One action is one step of one function: a loop iteration, or    *)
(* the code between two calls.                                             *)
(*                                                                         *)
(* A character is a one-character string; the characters TLA+ cannot       *)
(* write in a string are named by their code point ("U+000B", "U+00A0").   *)
(* A text is a sequence of characters.                                     *)
(***************************************************************************)
EXTENDS Integers, Sequences, FiniteSets, TLC

VARIABLES input, pos, stack, ret, result

vars == <<input, pos, stack, ret, result>>

-----------------------------------------------------------------------------
(* Bounds of the model. *)

\* longest text drawn freely from Alphabet
MaxLen == 4
\* deepest nesting of the generated well-formed texts
MaxDepth == 2
\* most elements of a generated array
MaxWidth == 2

-----------------------------------------------------------------------------
(* Characters. *)

QUOTE == "\""
BACKSLASH == "\\"

\* char::is_whitespace: the Unicode White_Space property, of which the model
\* keeps the six ASCII members and the no-break space.
is_whitespace(c) == c \in {" ", "\t", "\n", "\r", "\f", "U+000B", "U+00A0"}

Digits == <<"0", "1", "2", "3", "4", "5", "6", "7", "8", "9">>

\* char::is_digit(10)
is_digit(c) == \E i \in 1..10 : Digits[i] = c

DigitVal(c) == (CHOOSE i \in 1..10 : Digits[i] = c) - 1

-----------------------------------------------------------------------------
(* Option, Result and Value. *)

\* Option<char>, and the Option<(String, char)> of read_until
None == [some |-> FALSE]
Some(x) == [some |-> TRUE, x |-> x]
Found(text, c) == [some |-> TRUE, text |-> text, c |-> c]

\* a returned bool
Flag(b) == [flag |-> b]

\* Result<Value, String>, and the Ok of the productions that return a
\* Vec<Value>, a String, a HashMap and an f64
Ok(v) == [st |-> "ok", v |-> v]
OkVec(a) == [st |-> "ok", vec |-> a]
OkString(s) == [st |-> "ok", str |-> s]
OkMap(m) == [st |-> "ok", map |-> m]
OkNumber(n) == [st |-> "ok", num |-> n]
Err(msg) == [st |-> "err", err |-> msg, raw |-> <<>>]
ErrRaw(msg, raw) == [st |-> "err", err |-> msg, raw |-> raw]
Pending == [st |-> "pending"]
Panic == [st |-> "panic"]

Null == [t |-> "Null"]
Bool(b) == [t |-> "Bool", b |-> b]
Number(n) == [t |-> "Number", n |-> n]
String(s) == [t |-> "String", s |-> s]
Array(a) == [t |-> "Array", a |-> a]
Object(o) == [t |-> "Object", o |-> o]

\* HashMap::new and HashMap::insert (the last write of a key wins)
EmptyMap == [k \in {} |-> Null]
Insert(m, k, v) == [x \in DOMAIN m \cup {k} |-> IF x = k THEN v ELSE m[x]]

-----------------------------------------------------------------------------
(* str::parse::<f64>: the text must be a float literal from its first to   *)
(* its last character.  A finite value is kept as mant * 10^exp with mant  *)
(* free of trailing zeros, so that equal numbers are equal records; the    *)
(* rounding to 53 bits is not modelled.                                    *)

ToLower(c) ==
  CASE c = "I" -> "i" [] c = "N" -> "n" [] c = "F" -> "f" [] c = "T" -> "t"
    [] c = "Y" -> "y" [] c = "A" -> "a" [] c = "E" -> "e" [] OTHER -> c

Lower(s) == [i \in 1..Len(s) |-> ToLower(s[i])]

RECURSIVE DigitsLen(_, _)
\* the number of digits of s from index i on
DigitsLen(s, i) ==
  IF i <= Len(s) /\ is_digit(s[i]) THEN 1 + DigitsLen(s, i + 1) ELSE 0

RECURSIVE DigitsValue(_, _, _)
\* the value of the n digits of s that start at index i
DigitsValue(s, i, n) ==
  IF n = 0 THEN 0 ELSE DigitsValue(s, i, n - 1) * 10 + DigitVal(s[i + n - 1])

RECURSIVE Pow10(_)
Pow10(n) == IF n = 0 THEN 1 ELSE 10 * Pow10(n - 1)

RECURSIVE Normalize(_, _, _)
Normalize(neg, mant, exp) ==
  IF mant = 0 THEN [cls |-> "finite", neg |-> FALSE, mant |-> 0, exp |-> 0]
  ELSE IF mant % 10 = 0 THEN Normalize(neg, mant \div 10, exp + 1)
  ELSE [cls |-> "finite", neg |-> neg, mant |-> mant, exp |-> exp]

\* the digits, fraction and exponent of the unsigned literal s
ParseDecimal(neg, s) ==
  LET ni == DigitsLen(s, 1)
      dot == ni + 1 <= Len(s) /\ s[ni + 1] = "."
      fs == IF dot THEN ni + 2 ELSE ni + 1
      nf == IF dot THEN DigitsLen(s, fs) ELSE 0
      es == fs + nf
      hasExp == es <= Len(s) /\ s[es] \in {"e", "E"}
      esign == hasExp /\ es + 1 <= Len(s) /\ s[es + 1] \in {"+", "-"}
      ds == IF esign THEN es + 2 ELSE es + 1
      ne == IF hasExp THEN DigitsLen(s, ds) ELSE 0
      last == IF hasExp THEN ds + ne ELSE es
      eabs == DigitsValue(s, ds, ne)
      e == IF esign /\ s[es + 1] = "-" THEN 0 - eabs ELSE eabs
      mant == DigitsValue(s, 1, ni) * Pow10(nf) + DigitsValue(s, fs, nf)
  IN IF ni + nf = 0 \/ (hasExp /\ ne = 0) \/ last # Len(s) + 1
     THEN None
     ELSE Some(Normalize(neg, mant, e - nf))

ParseF64(raw) ==
  IF raw = <<>> THEN None
  ELSE LET signed == raw[1] \in {"+", "-"}
           neg == raw[1] = "-"
           s == IF signed THEN Tail(raw) ELSE raw
       IN IF Lower(s) \in {<<"i", "n", "f">>,
                           <<"i", "n", "f", "i", "n", "i", "t", "y">>}
          THEN Some([cls |-> "inf", neg |-> neg, mant |-> 0, exp |-> 0])
          ELSE IF Lower(s) = <<"n", "a", "n">>
          THEN Some([cls |-> "nan", neg |-> FALSE, mant |-> 0, exp |-> 0])
          ELSE ParseDecimal(neg, s)

-----------------------------------------------------------------------------
(* The Reader: the text and the cursor.  pos is the index of the next      *)
(* character, so pos - 1 characters have been consumed.                    *)

\* Reader::peek
peek == IF pos <= Len(input) THEN Some(input[pos]) ELSE None

\* Reader::next moves the cursor past the character it returns, and leaves
\* it where it is at the end of the text
NextPos(p) == IF p <= Len(input) THEN p + 1 ELSE p

-----------------------------------------------------------------------------
(* The call stack.  A frame holds the function, the place in it and its    *)
(* locals; ret holds what the last call returned.                          *)

Frame(fn) ==
  [fn |-> fn, pc |-> "start", delimiters |-> {}, text |-> <<>>,
   token |-> <<>>, idx |-> 1, values |-> <<>>, map |-> EmptyMap,
   name |-> <<>>, prod |-> ""]

top == stack[Len(stack)]

At(fn, pc) == stack # <<>> /\ top.fn = fn /\ top.pc = pc

Front(s) == SubSeq(s, 1, Len(s) - 1)

\* the running function, with its locals updated to f, calls callee
Call(f, callee) == stack' = Append(Front(stack), f) \o <<callee>>

\* the running function moves on to f without a call
Goto(f) == stack' = Append(Front(stack), f)

\* the running function returns v to its caller
Return(v) == stack' = Front(stack) /\ ret' = v

\* unwrap() of a None
Panicked == stack' = <<>> /\ result' = Panic /\ UNCHANGED <<input, pos, ret>>

done == stack = <<>>

-----------------------------------------------------------------------------
(* Reader::skip_whitespaces, one turn of its loop *)

\* skip_whitespaces without its self.next(): the loop sees the same
\* whitespace character again
skip_whitespaces_stuck ==
  /\ At("skip_whitespaces", "start")
  /\ IF peek.some /\ is_whitespace(peek.x)
     THEN UNCHANGED <<pos, stack, ret>>
     ELSE IF ~peek.some
     THEN Return(Flag(FALSE)) /\ UNCHANGED pos
     ELSE Return(Flag(TRUE)) /\ UNCHANGED pos
  /\ UNCHANGED <<input, result>>

skip_whitespaces ==
  /\ At("skip_whitespaces", "start")
  /\ IF peek.some /\ is_whitespace(peek.x)
     THEN pos' = NextPos(pos) /\ UNCHANGED <<stack, ret>>
     ELSE IF ~peek.some
     THEN Return(Flag(FALSE)) /\ UNCHANGED pos
     ELSE Return(Flag(TRUE)) /\ UNCHANGED pos
  /\ UNCHANGED <<input, result>>

(* Reader::read_until_or_end, one turn of its loop *)

read_until_or_end ==
  /\ At("read_until_or_end", "start")
  /\ IF peek.some
     THEN IF peek.x \in top.delimiters
          THEN Return([text |-> top.text, matched |-> Some(peek.x)])
               /\ UNCHANGED pos
          ELSE /\ Goto([top EXCEPT !.text = Append(@, peek.x)])
               /\ pos' = NextPos(pos)
               /\ UNCHANGED ret
     ELSE Return([text |-> top.text, matched |-> None]) /\ UNCHANGED pos
  /\ UNCHANGED <<input, result>>

(* Reader::read_until *)

read_until ==
  /\ At("read_until", "start")
  /\ Call([top EXCEPT !.pc = "matched"],
          [Frame("read_until_or_end") EXCEPT !.delimiters = top.delimiters])
  /\ UNCHANGED <<input, pos, ret, result>>

read_until_matched ==
  /\ At("read_until", "matched")
  /\ IF ret.matched.some
     THEN IF peek.some
          THEN /\ pos' = NextPos(pos)
               /\ Return(Found(ret.text, ret.matched.x))
               /\ UNCHANGED <<input, result>>
          ELSE Panicked
     ELSE Return(None) /\ UNCHANGED <<input, pos, result>>

(* Reader::skip_until *)

skip_until ==
  /\ At("skip_until", "start")
  /\ Call([top EXCEPT !.pc = "map"],
          [Frame("read_until") EXCEPT !.delimiters = top.delimiters])
  /\ UNCHANGED <<input, pos, ret, result>>

skip_until_map ==
  /\ At("skip_until", "map")
  /\ Return(IF ret.some THEN Some(ret.c) ELSE None)
  /\ UNCHANGED <<input, pos, result>>

(* Reader::read_token, one turn of its loop *)

read_token ==
  /\ At("read_token", "start")
  /\ IF top.idx > Len(top.token)
     THEN Return(Flag(TRUE)) /\ UNCHANGED pos
     ELSE /\ pos' = NextPos(pos)
          /\ IF peek = Some(top.token[top.idx])
             THEN Goto([top EXCEPT !.idx = @ + 1]) /\ UNCHANGED ret
             ELSE Return(Flag(FALSE))
  /\ UNCHANGED <<input, result>>

-----------------------------------------------------------------------------
(* parse_array *)

parse_array ==
  /\ At("parse_array", "start")
  /\ IF peek.some
     THEN /\ pos' = NextPos(pos)
          /\ Call([top EXCEPT !.pc = "empty"], Frame("skip_whitespaces"))
          /\ UNCHANGED <<input, ret, result>>
     ELSE Panicked

\* parse_array without its test of what skip_whitespaces returned
parse_array_empty_unchecked ==
  /\ At("parse_array", "empty")
  /\ IF peek = Some("]")
     THEN Return(OkVec(<<>>))
     ELSE Call([top EXCEPT !.pc = "push", !.values = <<>>], Frame("parse_value"))
          /\ UNCHANGED ret
  /\ UNCHANGED <<input, pos, result>>

parse_array_empty ==
  /\ At("parse_array", "empty")
  /\ IF ~ret.flag
     THEN Return(Err("unable to parse array"))
     ELSE IF peek = Some("]")
     THEN Return(OkVec(<<>>))
     ELSE Call([top EXCEPT !.pc = "push", !.values = <<>>], Frame("parse_value"))
          /\ UNCHANGED ret
  /\ UNCHANGED <<input, pos, result>>

parse_array_push ==
  /\ At("parse_array", "push")
  /\ IF ret.st = "err"
     THEN Return(ret)
     ELSE Call([top EXCEPT !.pc = "delimiter", !.values = Append(@, ret.v)],
               [Frame("skip_until") EXCEPT !.delimiters = {",", "]"}])
          /\ UNCHANGED ret
  /\ UNCHANGED <<input, pos, result>>

parse_array_delimiter ==
  /\ At("parse_array", "delimiter")
  /\ IF ret.some
     THEN IF ret.x = "]"
          THEN Return(OkVec(top.values))
          ELSE Call([top EXCEPT !.pc = "push"], Frame("parse_value"))
               /\ UNCHANGED ret
     ELSE Return(Err("unable to parse array"))
  /\ UNCHANGED <<input, pos, result>>

(* parse_string *)

parse_string ==
  /\ At("parse_string", "start")
  /\ Call([top EXCEPT !.pc = "match"],
          [Frame("read_until") EXCEPT !.delimiters = {QUOTE}])
  /\ UNCHANGED <<input, pos, ret, result>>

parse_string_match ==
  /\ At("parse_string", "match")
  /\ Return(IF ret.some THEN OkString(ret.text) ELSE Err("invalid json string"))
  /\ UNCHANGED <<input, pos, result>>

(* parse_null, parse_true, parse_false *)

parse_null ==
  /\ At("parse_null", "start")
  /\ Call([top EXCEPT !.pc = "token"],
          [Frame("read_token") EXCEPT !.token = <<"n", "u", "l", "l">>])
  /\ UNCHANGED <<input, pos, ret, result>>

parse_null_token ==
  /\ At("parse_null", "token")
  /\ Return(IF ret.flag THEN Ok(Null) ELSE Err("expected null"))
  /\ UNCHANGED <<input, pos, result>>

parse_true ==
  /\ At("parse_true", "start")
  /\ Call([top EXCEPT !.pc = "token"],
          [Frame("read_token") EXCEPT !.token = <<"t", "r", "u", "e">>])
  /\ UNCHANGED <<input, pos, ret, result>>

parse_true_token ==
  /\ At("parse_true", "token")
  /\ Return(IF ret.flag THEN Ok(Bool(TRUE)) ELSE Err("expected true"))
  /\ UNCHANGED <<input, pos, result>>

parse_false ==
  /\ At("parse_false", "start")
  /\ Call([top EXCEPT !.pc = "token"],
          [Frame("read_token") EXCEPT !.token = <<"f", "a", "l", "s", "e">>])
  /\ UNCHANGED <<input, pos, ret, result>>

parse_false_token ==
  /\ At("parse_false", "token")
  /\ Return(IF ret.flag THEN Ok(Bool(FALSE)) ELSE Err("expected false"))
  /\ UNCHANGED <<input, pos, result>>

(* parse_object *)

parse_object ==
  /\ At("parse_object", "start")
  /\ IF peek.some
     THEN /\ pos' = NextPos(pos)
          /\ Call([top EXCEPT !.pc = "loop", !.map = EmptyMap],
                  [Frame("skip_until") EXCEPT !.delimiters = {QUOTE, "}"}])
          /\ UNCHANGED <<input, ret, result>>
     ELSE Panicked

parse_object_loop ==
  /\ At("parse_object", "loop")
  /\ IF ret.some
     THEN IF ret.x = "}"
          THEN Return(OkMap(top.map))
          ELSE Call([top EXCEPT !.pc = "name"], Frame("parse_string"))
               /\ UNCHANGED ret
     ELSE Return(Err("invalid json object"))
  /\ UNCHANGED <<input, pos, result>>

parse_object_name ==
  /\ At("parse_object", "name")
  /\ IF ret.st = "err"
     THEN Return(ret)
     ELSE Call([top EXCEPT !.pc = "colon", !.name = ret.str],
               [Frame("skip_until") EXCEPT !.delimiters = {":"}])
          /\ UNCHANGED ret
  /\ UNCHANGED <<input, pos, result>>

parse_object_colon ==
  /\ At("parse_object", "colon")
  /\ IF ret.some
     THEN Call([top EXCEPT !.pc = "insert"], Frame("parse_value"))
          /\ UNCHANGED ret
     ELSE Return(Err("missing property value"))
  /\ UNCHANGED <<input, pos, result>>

parse_object_insert ==
  /\ At("parse_object", "insert")
  /\ IF ret.st = "err"
     THEN Return(ret)
     ELSE Call([top EXCEPT !.pc = "delimiter",
                           !.map = Insert(@, top.name, ret.v)],
               [Frame("skip_until") EXCEPT !.delimiters = {",", "}"}])
          /\ UNCHANGED ret
  /\ UNCHANGED <<input, pos, result>>

parse_object_delimiter ==
  /\ At("parse_object", "delimiter")
  /\ IF ret.some
     THEN IF ret.x = "}"
          THEN Return(OkMap(top.map))
          ELSE Call([top EXCEPT !.pc = "loop"],
                    [Frame("skip_until") EXCEPT !.delimiters = {QUOTE, "}"}])
               /\ UNCHANGED ret
     ELSE Return(Err("missing property value"))
  /\ UNCHANGED <<input, pos, result>>

(* parse_number *)

parse_number ==
  /\ At("parse_number", "start")
  /\ Call([top EXCEPT !.pc = "raw"],
          [Frame("read_until_or_end") EXCEPT !.delimiters = {",", "]", "}"}])
  /\ UNCHANGED <<input, pos, ret, result>>

\* raw.parse(), the text as read_until_or_end collected it
NumberOf(raw) ==
  IF ParseF64(raw).some
  THEN OkNumber(ParseF64(raw).x)
  ELSE ErrRaw("is not a valid number", raw)

parse_number_raw ==
  /\ At("parse_number", "raw")
  /\ Return(NumberOf(ret.text))
  /\ UNCHANGED <<input, pos, result>>

-----------------------------------------------------------------------------
(* parse_value *)

parse_value ==
  /\ At("parse_value", "start")
  /\ Call([top EXCEPT !.pc = "dispatch"], Frame("skip_whitespaces"))
  /\ UNCHANGED <<input, pos, ret, result>>

\* the dispatch with the array production as its last, catch-all arm
Production_default_array(p) ==
  IF ~p.some THEN "malformed"
  ELSE CASE p.x = "n" -> "parse_null"
         [] p.x = "t" -> "parse_true"
         [] p.x = "f" -> "parse_false"
         [] p.x = QUOTE -> "parse_string"
         [] p.x = "{" -> "parse_object"
         [] p.x = "+" \/ p.x = "-" \/ is_digit(p.x) -> "parse_number"
         [] OTHER -> "parse_array"

\* the production the next character selects
Production(p) ==
  IF ~p.some THEN "malformed"
  ELSE CASE p.x = "n" -> "parse_null"
         [] p.x = "t" -> "parse_true"
         [] p.x = "f" -> "parse_false"
         [] p.x = "[" -> "parse_array"
         [] p.x = QUOTE -> "parse_string"
         [] p.x = "{" -> "parse_object"
         [] p.x = "+" \/ p.x = "-" \/ is_digit(p.x) -> "parse_number"
         [] OTHER -> "malformed"

parse_value_dispatch ==
  /\ At("parse_value", "dispatch")
  /\ LET prod == Production(peek) IN
     IF ~ret.flag
     THEN Return(Err("empty string")) /\ UNCHANGED <<input, pos, result>>
     ELSE IF prod = "malformed"
     THEN Return(Err("malformed json")) /\ UNCHANGED <<input, pos, result>>
     ELSE IF prod = "parse_string"
     THEN IF peek.some
          THEN /\ pos' = NextPos(pos)
               /\ Call([top EXCEPT !.pc = "map", !.prod = prod], Frame(prod))
               /\ UNCHANGED <<input, ret, result>>
          ELSE Panicked
     ELSE /\ Call([top EXCEPT !.pc = "map", !.prod = prod], Frame(prod))
          /\ UNCHANGED <<input, pos, ret, result>>

\* .map(Value::Array), .map(Value::String), .map(Value::Object),
\* .map(Value::Number); the literals return a Value already
MapValue(prod, r) ==
  IF r.st = "err" THEN r
  ELSE CASE prod = "parse_array" -> Ok(Array(r.vec))
         [] prod = "parse_string" -> Ok(String(r.str))
         [] prod = "parse_object" -> Ok(Object(r.map))
         [] prod = "parse_number" -> Ok(Number(r.num))
         [] OTHER -> r

parse_value_map ==
  /\ At("parse_value", "map")
  /\ Return(MapValue(top.prod, ret))
  /\ UNCHANGED <<input, pos, result>>

-----------------------------------------------------------------------------
(* parse *)

parse ==
  /\ At("parse", "start")
  /\ Call([top EXCEPT !.pc = "value"], Frame("parse_value"))
  /\ UNCHANGED <<input, pos, ret, result>>

parse_value_returned ==
  /\ At("parse", "value")
  /\ IF ret.st = "err"
     THEN stack' = <<>> /\ result' = ret /\ UNCHANGED ret
     ELSE /\ Call([top EXCEPT !.pc = "after", !.values = <<ret.v>>],
                  Frame("skip_whitespaces"))
          /\ UNCHANGED <<ret, result>>
  /\ UNCHANGED <<input, pos>>

\* parse without its test of what skip_whitespaces returned
Outcome_unchecked(left, value) == Ok(value)

\* whether text is left after the value decides the result
Outcome(left, value) ==
  IF left THEN Err("unexpected text after value") ELSE Ok(value)

parse_after ==
  /\ At("parse", "after")
  /\ stack' = <<>>
  /\ result' = Outcome(ret.flag, top.values[1])
  /\ UNCHANGED <<input, pos, ret>>

-----------------------------------------------------------------------------
(* The texts parse is run on: the texts of the tests (the indentation of   *)
(* the multi-line ones shortened to one space), every text of at most      *)
(* MaxLen characters of Alphabet, and the well-formed texts that render a  *)
(* bounded Value tree, with and without whitespace around the delimiters.  *)

\* test null
T_null ==
  <<"n", "u", "l", "l">>

\* test null_err
T_null_err ==
  <<"n", "u", "l", "z">>

\* test bool
T_true ==
  <<"t", "r", "u", "e">>

\* test bool
T_false ==
  <<"f", "a", "l", "s", "e">>

\* test number
T_number ==
  <<"4", "2", ".", "4", "2">>

\* test number
T_number_minus ==
  <<"-", "4", "2">>

\* test number
T_number_plus ==
  <<"+", "4", "2">>

\* test number (src/src/tests.rs)
T_number_exp ==
  <<"1", "e", "-", "0", "0", "5">>

\* test number_trailing_spaces (src/src/tests.rs)
T_number_trailing_spaces ==
  <<"4", "2", " ", " ">>

\* test string
T_string ==
  <<QUOTE, "t", "e", "s", "t", " ", "s", "t", "r", "i", "n", "g", QUOTE>>

\* test string_escape (src/src/tests.rs)
T_string_escape ==
  <<" ", QUOTE, BACKSLASH, QUOTE, "t", "e", "s", "t", " ", "s", "t", "r",
    "i", "n", "g", BACKSLASH, QUOTE, QUOTE, " ">>

\* test string_escape_at_end_of_text (src/src/tests.rs)
T_string_escape_at_end ==
  <<QUOTE, "e", "r", "r", BACKSLASH>>

\* test string_err
T_string_err ==
  <<QUOTE, "b", "r", "o", "k", "e", "n">>

\* test array
T_array ==
  <<"[", "n", "u", "l", "l", ",", " ", "t", "r", "u", "e", ",", " ", "f",
    "a", "l", "s", "e", ",", " ", "4", "2", ".", "4", "2", ",", " ", QUOTE,
    "t", "h", "i", "s", " ", "i", "s", " ", "a", " ", "s", "t", "r", "i",
    "n", "g", QUOTE, "]">>

\* test object
T_object ==
  <<"{", "\n", " ", QUOTE, "b", "o", "o", "l", "e", "a", "n", QUOTE, ":",
    " ", "f", "a", "l", "s", "e", ",", "\n", " ", QUOTE, "t", "e", "x",
    "t", QUOTE, ":", " ", QUOTE, "t", "e", "x", "t", " ", "v", "a", "l",
    "u", "e", QUOTE, "\n", "}">>

\* test object (src/src/tests.rs)
T_object_number ==
  <<"{", "\n", " ", QUOTE, "t", "e", "x", "t", QUOTE, ":", " ", QUOTE, "t",
    "e", "x", "t", " ", "v", "a", "l", "u", "e", QUOTE, ",", "\n", " ",
    QUOTE, "n", "u", "m", "b", "e", "r", QUOTE, ":", " ", "4", "2", ".",
    "4", "2", "\n", " ", "}">>

\* test nesting
T_nesting ==
  <<"{", "\n", " ", QUOTE, "a", "r", "r", "a", "y", QUOTE, ":", " ", "[",
    "\n", " ", "t", "r", "u", "e", ",", "\n", " ", "{", "\n", " ", QUOTE,
    "t", "e", "x", "t", QUOTE, ":", " ", QUOTE, "s", QUOTE, ",", "\n", " ",
    QUOTE, "n", "e", "s", "t", "e", "d", " ", "a", "r", "r", "a", "y",
    QUOTE, ":", " ", "[", "\n", " ", "n", "u", "l", "l", ",", "\n", " ",
    "f", "a", "l", "s", "e", "\n", " ", "]", "\n", " ", "}", "]", "\n", "}">>

\* test unexpected_text_after
T_unexpected_text_after ==
  <<"[", "n", "u", "l", "l", "]", " ", "i", "n", "v", "a", "l", "i", "d">>

Corpus ==
  {T_null,
   T_null_err,
   T_true,
   T_false,
   T_number,
   T_number_minus,
   T_number_plus,
   T_number_exp,
   T_number_trailing_spaces,
   T_string,
   T_string_escape,
   T_string_escape_at_end,
   T_string_err,
   T_array,
   T_object,
   T_object_number,
   T_nesting,
   T_unexpected_text_after}

Alphabet == {"[", "]", "{", "}", QUOTE, BACKSLASH, ",", " ", "\f", "1"}

Texts(n) == UNION {[1..k -> Alphabet] : k \in 0..n}

Scalars == {Null}

RECURSIVE Trees(_)
\* the Value trees nested at most d deep: arrays of at most MaxWidth
\* elements, objects of at most one property
Trees(d) ==
  IF d = 0 THEN Scalars
  ELSE LET sub == Trees(d - 1) IN
       Scalars
       \cup {Array(a) : a \in UNION {[1..n -> sub] : n \in 0..MaxWidth}}
       \cup {Object(EmptyMap)}
       \cup {Object([k \in {<<"a">>} |-> v]) : v \in sub}

RECURSIVE Render(_, _)
RECURSIVE RenderElements(_, _, _)

\* the elements of a from the i-th on, separated by commas
RenderElements(a, i, pad) ==
  IF i > Len(a) THEN <<>>
  ELSE Render(a[i], pad)
       \o (IF i < Len(a) THEN pad \o <<",">> \o pad ELSE <<>>)
       \o RenderElements(a, i + 1, pad)

\* the JSON text of the tree t, with pad around every delimiter
Render(t, pad) ==
  CASE t.t = "Null" -> <<"n", "u", "l", "l">>
    [] t.t = "Array" ->
         IF t.a = <<>> THEN <<"[">> \o pad \o <<"]">>
         ELSE <<"[">> \o pad \o RenderElements(t.a, 1, pad) \o pad \o <<"]">>
    [] t.t = "Object" ->
         IF DOMAIN t.o = {} THEN <<"{">> \o pad \o <<"}">>
         ELSE <<"{">> \o pad \o <<QUOTE, "a", QUOTE>> \o pad \o <<":">> \o pad
              \o Render(t.o[<<"a">>], pad) \o pad \o <<"}">>

Pads == {<<>>, <<" ">>}

\* the generated texts, each with the tree it renders
Rendered == {[text |-> Render(t, pad), tree |-> t] : t \in Trees(MaxDepth), pad \in Pads}

Inputs == Corpus \cup Texts(MaxLen) \cup {r.text : r \in Rendered}

Init ==
  /\ input \in Inputs
  /\ pos = 1
  /\ stack = <<Frame("parse")>>
  /\ ret = None
  /\ result = Pending

Next ==
  \/ skip_whitespaces
  \/ read_until_or_end
  \/ read_until
  \/ read_until_matched
  \/ skip_until
  \/ skip_until_map
  \/ read_token
  \/ parse_array
  \/ parse_array_empty
  \/ parse_array_push
  \/ parse_array_delimiter
  \/ parse_string
  \/ parse_string_match
  \/ parse_null
  \/ parse_null_token
  \/ parse_true
  \/ parse_true_token
  \/ parse_false
  \/ parse_false_token
  \/ parse_object
  \/ parse_object_loop
  \/ parse_object_name
  \/ parse_object_colon
  \/ parse_object_insert
  \/ parse_object_delimiter
  \/ parse_number
  \/ parse_number_raw
  \/ parse_value
  \/ parse_value_dispatch
  \/ parse_value_map
  \/ parse
  \/ parse_value_returned
  \/ parse_after

Spec == Init /\ [][Next]_vars

\* the parse is one call that runs until it returns
FairSpec == Init /\ [][Next]_vars /\ WF_vars(Next)

TypeOK ==
  /\ pos \in 1..(Len(input) + 1)
  /\ result.st \in {"pending", "ok", "err", "panic"}
  /\ done <=> result.st # "pending"

-----------------------------------------------------------------------------
(* Properties. *)

\* the whitespace of the JSON grammar
JsonWhitespace == {" ", "\t", "\n", "\r"}

\* characters that are whitespace to char::is_whitespace only
OtherWhitespace == {"\f", "U+000B", "U+00A0"}

AllIn(s, from, set) == \A i \in from..Len(s) : s[i] \in set

\* C1: "[]" and "[ ]" parse to the empty Array and "{}" to the empty
\* Object; the closing bracket is not left behind as trailing content.
C1_EmptyContainers ==
  done =>
    /\ (input \in {<<"[", "]">>, <<"[", " ", "]">>}
          => result = Ok(Array(<<>>)))
    /\ (input = <<"{", "}">> => result = Ok(Object(EmptyMap)))

\* C2: a valid numeric literal followed by whitespace parses to that
\* Number, at top level up to the end of the text and inside an array
\* before the closing bracket.
C2_NumberTrimmed ==
  done =>
    \A n \in 1..Len(input) :
      LET lit == SubSeq(input, 1, n)
          inner == SubSeq(input, 2, n)
      IN /\ (ParseF64(lit).some /\ AllIn(input, n + 1, JsonWhitespace)
               => result = Ok(Number(ParseF64(lit).x)))
         /\ ((/\ input[1] = "[" /\ input[Len(input)] = "]" /\ n < Len(input)
              /\ ParseF64(inner).some
              /\ (\A i \in (n + 1)..(Len(input) - 1) :
                    input[i] \in JsonWhitespace))
               => result = Ok(Array(<<Number(ParseF64(inner).x)>>)))

RECURSIVE Escaped(_, _)
\* from index i on, s is made of characters other than the quote and the
\* backslash and of pairs of a backslash and any character
Escaped(s, i) ==
  IF i > Len(s) THEN TRUE
  ELSE IF s[i] = BACKSLASH THEN i + 1 <= Len(s) /\ Escaped(s, i + 2)
  ELSE s[i] # QUOTE /\ Escaped(s, i + 1)

RECURSIVE Unescape(_, _)
\* s from index i on, each pair replaced by its second character
Unescape(s, i) ==
  IF i > Len(s) THEN <<>>
  ELSE IF s[i] = BACKSLASH THEN <<s[i + 1]>> \o Unescape(s, i + 2)
  ELSE <<s[i]>> \o Unescape(s, i + 1)

RECURSIVE Strip(_)
\* s without the spaces at its two ends
Strip(s) ==
  IF s # <<>> /\ s[1] = " " THEN Strip(Tail(s))
  ELSE IF s # <<>> /\ s[Len(s)] = " " THEN Strip(SubSeq(s, 1, Len(s) - 1))
  ELSE s

\* C3: a backslash and the character after it stand for that character,
\* so an escaped quote does not end the string: a quoted text parses to
\* the String of its unescaped content.
C3_StringEscape ==
  done =>
    LET s == Strip(input)
        body == SubSeq(s, 2, Len(s) - 1)
    IN (Len(s) >= 2 /\ s[1] = QUOTE /\ s[Len(s)] = QUOTE /\ Escaped(body, 1))
         => result = Ok(String(Unescape(body, 1)))

\* C4: a text that ends right after a backslash inside a string fails
\* with "no char to escape".
C4_DanglingEscape ==
  done =>
    ((/\ Len(input) >= 2 /\ input[1] = QUOTE /\ input[Len(input)] = BACKSLASH
      /\ Escaped(SubSeq(input, 2, Len(input) - 1), 1))
       => result = Err("no char to escape"))

\* the dispatcher has just returned a value to parse
ValueProduced == At("parse", "value") /\ ret.st = "ok"

\* text other than whitespace is left from the cursor on
TextLeft == \E i \in pos..Len(input) : ~is_whitespace(input[i])

\* C5: once the dispatcher has produced a value with text other than
\* whitespace left after it, parse can only return "unexpected text after
\* value"; it returns Ok only if whitespace alone was left.
C5_TrailingContent ==
  [](ValueProduced /\ TextLeft
       => [](done => result = Err("unexpected text after value")))

C5_Witness ==
  /\ done
  /\ input = T_unexpected_text_after
  /\ result = Err("unexpected text after value")

\* C6: every well-formed array text parses to the Array of the values of
\* its elements, in order, each nested container with its own children.
C6_Nesting ==
  done =>
    \A r \in Rendered :
      (r.tree.t = "Array" /\ input = r.text) => result = Ok(r.tree)

\* C7: an opening quote with no closing quote gives "invalid json string",
\* an opening brace with neither a quote nor a closing brace after it
\* "invalid json object", an opening bracket with only whitespace after it
\* "unable to parse array", and an n that does not start null "expected
\* null".
C7_SpecificErrors ==
  done =>
    /\ (input # <<>> /\ input[1] = QUOTE
          /\ (\A i \in 2..Len(input) : input[i] # QUOTE)
          => result = Err("invalid json string"))
    /\ (input # <<>> /\ input[1] = "{"
          /\ (\A i \in 2..Len(input) : input[i] \notin {QUOTE, "}"})
          => result = Err("invalid json object"))
    /\ (input # <<>> /\ input[1] = "["
          /\ (\A i \in 2..Len(input) : is_whitespace(input[i]))
          => result = Err("unable to parse array"))
    /\ (input # <<>> /\ input[1] = "n"
          /\ SubSeq(input, 1, 4) # <<"n", "u", "l", "l">>
          => result = Err("expected null"))

C7_Witness ==
  /\ done
  /\ input = T_string_err
  /\ result = Err("invalid json string")

\* C8: only space, tab, newline and carriage return are skipped: another
\* character before a value makes the dispatcher fail with "malformed
\* json", and after a complete value it is unexpected text.
C8_JsonWhitespaceOnly ==
  done =>
    /\ (input # <<>> /\ input[1] \in OtherWhitespace
          => result = Err("malformed json"))
    /\ (Len(input) > 2
          /\ SubSeq(input, 1, 2) \in {<<QUOTE, QUOTE>>, <<"{", "}">>}
          /\ input[3] \in OtherWhitespace
          => result = Err("unexpected text after value"))

\* C9: parse ends on every text, with Ok or Err; the cursor never moves
\* back and never passes the end of the text.
C9_Termination ==
  /\ <>(done /\ result.st \in {"ok", "err"})
  /\ [][pos' >= pos]_vars
  /\ [](pos <= Len(input) + 1)

C9_Witness ==
  /\ done
  /\ input = T_nesting
  /\ pos = Len(input) + 1
  /\ result.st = "ok"

\* C10: parse never panics: parse_array and parse_object are entered with
\* their opening bracket as the next character, and read_until consumes the
\* delimiter that read_until_or_end has just matched.
C10_NoPanic ==
  /\ result # Panic
  /\ At("parse_array", "start") => peek = Some("[")
  /\ At("parse_object", "start") => peek = Some("{")
  /\ At("read_until", "matched") /\ ret.matched.some => peek = ret.matched

C10_Witness ==
  /\ At("read_until", "matched")
  /\ ret.matched.some
  /\ Len(stack) > 6

====
